---- MODULE Spec2Model ----
(***************************************************************************)
(* A model of the subtitle compositor of obs-subtitle (src/src/ass.rs, with *)
(* its host glue in src/src/lib.rs): the track slot behind its RwLock, the  *)
(* time cursor, the dirty-region list last_image and the RGBA destination   *)
(* texture, with load_track and tick as the operations.                     *)
(*                                                                          *)
(* Five specifications share the definitions:                               *)
(*   Spec      host calls run to completion one after another;              *)
(*   SpecConc  load_track (update thread) and tick (render thread) are      *)
(*             interleaved statement by statement;                          *)
(*   SpecFn    the pure functions (blend of one pixel, duration of a list   *)
(*             of entries) applied to inputs drawn from bounded sets;       *)
(*   SpecLane  the lane arithmetic of the blend on every triple of bytes;   *)
(*   SpecHost  the host's callbacks play_pause, video_tick and update, run  *)
(*             to completion one after another.                             *)
(***************************************************************************)
EXTENDS Integers, Sequences, FiniteSets, TLC

VARIABLES
    track,       \* AssData.track: the Option<LoadedTrack> inside the RwLock
    cur_time,    \* AssData.cur_time: i64, as four 16-bit limbs
    last_image,  \* AssData.last_image: Vec<LastLayer>
    tex,         \* SourceData.tex: the bytes of the destination texture
    mapped,      \* TRUE while a MappedTexture of tex is alive
    rwlock,      \* who holds the RwLock of track
    pcT,         \* render thread: position inside tick/render
    rt,          \* render thread: locals of tick/render
    pcL,         \* update thread: position inside load_track
    lt,          \* update thread: locals of load_track
    ret,         \* history: what the most recently completed call did
    shown,       \* history: the layers of the latest render that reported a change
    seen,        \* history: the slot content handed to the latest render_frame
    inside,      \* history: the latest render began and returned within one load_track
    fn,          \* harness of the pure functions (SpecFn, SpecLane)
    state,       \* SourceData.state: MediaState
    playlist,    \* SourceData.playlist: Vec<String>
    host         \* history: the latest callback of the host and its arguments

vars == <<track, cur_time, last_image, tex, mapped, rwlock, pcT, rt, pcL, lt,
          ret, shown, seen, inside, fn, state, playlist, host>>

\* The fields of SourceData beside ass and tex, with their history.
hostvars == <<state, playlist, host>>

(***************************************************************************)
(* Bounds of the model.                                                    *)
(***************************************************************************)
\* Width and height of the modelled texture, in pixels (1920 x 1080 in the
\* program; dst_w and the texture width are the same number there).
TexW == 2
TexH == 2
\* Longest layer sequence the rasterization engine returns.
MaxLayers == 2
\* Ticks that advance the cursor away from a reset: a tick is taken only
\* while the cursor is the sum of fewer than MaxTicks elapsed times.
MaxTicks == 2
\* Longest list of timed entries of a subtitle document (SpecFn).
MaxEntries == 3

(***************************************************************************)
(* i64: a 64-bit two's-complement integer as four 16-bit limbs, least      *)
(* significant first.                                                      *)
(***************************************************************************)
Limb == 2^16

\* The i64 of a small integer n (|n| < 2^31).
I64(n) ==
    LET n1 == n \div Limb
        n2 == n1 \div Limb
        n3 == n2 \div Limb
    IN  <<n % Limb, n1 % Limb, n2 % Limb, n3 % Limb>>

I64Zero == <<0, 0, 0, 0>>
I64Max == <<Limb - 1, Limb - 1, Limb - 1, Limb \div 2 - 1>>

\* i64::overflowing_add(a, b).0: the sum modulo 2^64.
overflowing_add(a, b) ==
    LET s1 == a[1] + b[1]
        s2 == a[2] + b[2] + (s1 \div Limb)
        s3 == a[3] + b[3] + (s2 \div Limb)
        s4 == a[4] + b[4] + (s3 \div Limb)
    IN  <<s1 % Limb, s2 % Limb, s3 % Limb, s4 % Limb>>

\* The signed order of i64: the top limb with its sign bit flipped, then the
\* lower limbs, compared from the most significant down.
I64Key(a) == <<(a[4] + Limb \div 2) % Limb, a[3], a[2], a[1]>>

I64Lt(a, b) ==
    LET x == I64Key(a)
        y == I64Key(b)
    IN  \E i \in 1..4 : x[i] < y[i] /\ \A j \in 1..(i - 1) : x[j] = y[j]

I64Ge(a, b) == a = b \/ I64Lt(b, a)

(***************************************************************************)
(* Layers and pixels.  A texture is its bytes, RGBA, row after row, byte   *)
(* offsets counted from 0; a layer is a rectangle, a packed u32 colour     *)
(* (as two 16-bit halves <<high, low>>) and one coverage byte per pixel,   *)
(* row after row.                                                          *)
(***************************************************************************)
\* GraphicsTexture::new(width, height, RGBA) and MappedTexture::width().
TexBytes == 0..(TexW * TexH * 4 - 1)
tex_width == TexW
\* let dst_w = 1920 in render: the row stride draw_layer is given.
dst_w == TexW

ZeroTex == [b \in TexBytes |-> 0]

\* u32::to_be_bytes.
to_be_bytes(c) == <<c[1] \div 256, c[1] % 256, c[2] \div 256, c[2] % 256>>

\* Mutant of InverseAlpha: the stored alpha is used as it is.
KeepAlpha(color) == color

\* color[3] = 255 - color[3]: the stored alpha is inverted.
InverseAlpha(color) == [color EXCEPT ![4] = 255 - color[4]]

\* Mutant of BlendLane: the lanes are 8 bits wide.
BlendLaneU8(cd, cs, k) ==
    LET arr == (cd * (255 - k)) % 2^8
        color_premul == (cs * k) % 2^8
    IN  (((arr + color_premul) % 2^8) \div 255) % 256

\* One lane of the u16x4 arithmetic of the closure in draw_layer:
\* u8x4::from_cast((arr * (255 - k) + color * k) / 255), products and sum
\* wrapping at 16 bits, the narrowing keeping the low 8 bits.
BlendLane(cd, cs, k) ==
    LET arr == (cd * (255 - k)) % 2^16
        color_premul == (cs * k) % 2^16
    IN  (((arr + color_premul) % 2^16) \div 255) % 256

\* One row y of draw_layer: the slice of the texture the row covers, blended
\* chunk by chunk with the coverage bytes of the row.
DrawRow(layer, color, t, w, y) ==
    LET dst_y == y + layer.y
        dst_y_off == (dst_y * w + layer.x) * 4
        layer_y_off == y * layer.width
    IN  [b \in DOMAIN t |->
            IF b >= dst_y_off /\ b < dst_y_off + layer.width * 4
            THEN LET i == (b - dst_y_off) \div 4
                     c == (b - dst_y_off) % 4
                 IN  BlendLane(t[b], color[c + 1], layer.bitmap[layer_y_off + i + 1])
            ELSE t[b]]

RECURSIVE DrawRows(_, _, _, _, _)
DrawRows(layer, color, t, w, y) ==
    IF y >= layer.height THEN t
    ELSE DrawRows(layer, color, DrawRow(layer, color, t, w, y), w, y + 1)

\* draw_layer(layer, tex, dst_w).
draw_layer(layer, t, w) ==
    DrawRows(layer, InverseAlpha(to_be_bytes(layer.color)), t, w, 0)

\* LastLayer::from_layer.
from_layer(layer) ==
    [width |-> layer.width, height |-> layer.height, x |-> layer.x, y |-> layer.y]

\* dst_slice.fill(0) on tex[from..from + n].
fill_zero(t, from, n) ==
    [b \in DOMAIN t |-> IF b >= from /\ b < from + n THEN 0 ELSE t[b]]

\* The inner loop of clear_last: the rows dst_y..layer.y + layer.height of
\* one recorded rectangle, each found with the width of the texture.
RECURSIVE ClearRows(_, _, _, _)
ClearRows(layer, t, tex_w, dst_y) ==
    IF dst_y >= layer.y + layer.height THEN t
    ELSE ClearRows(layer,
                   fill_zero(t, (dst_y * tex_w + layer.x) * 4, layer.width * 4),
                   tex_w, dst_y + 1)

RECURSIVE ClearFrom(_, _, _)
ClearFrom(image, t, n) ==
    IF n > Len(image) THEN t
    ELSE ClearFrom(image, ClearRows(image[n], t, tex_width, image[n].y), n + 1)

\* Mutant of clear_last: nothing is cleared.
clear_nothing(image, t) == t

\* clear_last(image, tex).
clear_last(image, t) == ClearFrom(image, t, 1)

\* The loop of render over the layers of the image: draw, then push.
RECURSIVE DrawImage(_, _, _)
DrawImage(layers, t, n) ==
    IF n > Len(layers) THEN t
    ELSE DrawImage(layers, draw_layer(layers[n], t, dst_w), n + 1)

PushAll(layers) == [n \in 1..Len(layers) |-> from_layer(layers[n])]

(***************************************************************************)
(* The rasterization engine.  Renderer::render_frame returns an optional   *)
(* image and a Change; which one it returns for a track and a time is the  *)
(* engine's business, so the model lets it return any of them.  Every      *)
(* layer lies inside the texture.                                          *)
(***************************************************************************)
Ramp == <<0, 128, 255>>
RampBitmap(n, from) == [i \in 1..n |-> Ramp[((i + from) % 3) + 1]]
FullBitmap(n) == [i \in 1..n |-> 255]

\* Opaque orange (stored alpha 0) and half-transparent blue (stored alpha 128).
Orange == <<255 * 256 + 128, 0>>
Blue == <<64, 255 * 256 + 128>>

\* The layers the engine draws from: the whole texture with a coverage ramp
\* (its third pixel not covered at all), and the rightmost column below the
\* first row, fully covered.
LayerSet ==
    { [x |-> 0, y |-> 0, width |-> TexW, height |-> TexH,
       color |-> Orange, bitmap |-> RampBitmap(TexW * TexH, 0)],
      [x |-> TexW - 1, y |-> 1, width |-> 1, height |-> TexH - 1,
       color |-> Blue, bitmap |-> FullBitmap(TexH - 1)] }

SeqsUpTo(S, n) == UNION {[1..m -> S] : m \in 0..n}

\* Option<Image>: None, or the layers in the order the engine returns them.
NoImage == [some |-> FALSE, layers |-> <<>>]
Images == {NoImage} \cup {[some |-> TRUE, layers |-> ls] : ls \in SeqsUpTo(LayerSet, MaxLayers)}

\* libass::Change.
Changes == {"None", "Position", "Content"}

(***************************************************************************)
(* Subtitle files.  The file system maps a path to what fs::read, the      *)
(* container-format parser and the engine make of it.                      *)
(***************************************************************************)
Paths == {"missing.ass", "malformed.ass", "noentries.ass", "rejected.ass",
          "empty.ass", "three.ass"}

File(path) ==
    CASE path = "missing.ass" ->
            [readable |-> FALSE, parse |-> FALSE, entries |-> FALSE,
             ends |-> <<>>, engine |-> FALSE]
      [] path = "malformed.ass" ->
            [readable |-> TRUE, parse |-> FALSE, entries |-> FALSE,
             ends |-> <<>>, engine |-> FALSE]
      [] path = "noentries.ass" ->
            [readable |-> TRUE, parse |-> TRUE, entries |-> FALSE,
             ends |-> <<>>, engine |-> TRUE]
      [] path = "rejected.ass" ->
            [readable |-> TRUE, parse |-> TRUE, entries |-> TRUE,
             ends |-> <<900>>, engine |-> FALSE]
      [] path = "empty.ass" ->
            [readable |-> TRUE, parse |-> TRUE, entries |-> TRUE,
             ends |-> <<>>, engine |-> TRUE]
      [] OTHER ->
            [readable |-> TRUE, parse |-> TRUE, entries |-> TRUE,
             ends |-> <<500, 1200, 900>>, engine |-> TRUE]

\* Mutant of max_by_key: the first entry instead of the greatest.
first_entry(ends) == IF ends = <<>> THEN 0 ELSE 1

\* Iterator::max_by_key over the end timestamps: the last of the greatest
\* elements, or nothing for an empty list.  ends[best] is the greatest so far.
RECURSIVE MaxByKeyFrom(_, _, _)
MaxByKeyFrom(ends, best, n) ==
    IF n > Len(ends) THEN best
    ELSE MaxByKeyFrom(ends, IF ends[n] >= ends[best] THEN n ELSE best, n + 1)

max_by_key(ends) == IF ends = <<>> THEN 0 ELSE MaxByKeyFrom(ends, 1, 2)

\* entries.iter().max_by_key(..).map(|ent| ent.timespan.end.msecs()),
\* then len.unwrap_or(0).
track_len(ends) ==
    LET m == max_by_key(ends)
    IN  IF m = 0 THEN I64Zero ELSE I64(ends[m])

\* AssData::load_file(path): the bytes of the file and its duration, or the
\* error of the first step that fails.
load_file(path) ==
    LET f == File(path)
    IN  IF ~f.readable THEN [ok |-> FALSE, bytes |-> "", len |-> I64Zero]
        ELSE IF ~f.parse THEN [ok |-> FALSE, bytes |-> "", len |-> I64Zero]
        ELSE IF ~f.entries THEN [ok |-> FALSE, bytes |-> "", len |-> I64Zero]
        ELSE [ok |-> TRUE, bytes |-> path, len |-> track_len(f.ends)]

\* Library::new_track_from_memory(bytes, "UTF-8"): the engine's track for
\* the bytes, or an error.
new_track_from_memory(bytes) ==
    IF File(bytes).engine THEN [ok |-> TRUE, track |-> bytes]
    ELSE [ok |-> FALSE, track |-> ""]

\* Option<LoadedTrack>: None, or Some(LoadedTrack::new(track, len)).
None == [some |-> FALSE, track |-> "", len |-> I64Zero]
LoadedTrack(trk, len) == [some |-> TRUE, track |-> trk, len |-> len]

(***************************************************************************)
(* The queries of AssData.                                                 *)
(***************************************************************************)
\* AssData::current_len.
current_len == IF track.some THEN track.len ELSE I64Zero

\* AssData::current_time.
current_time == cur_time

\* Mutant of ended: the end is reported only past the duration.
ended_strict == I64Lt(current_len, cur_time)

\* AssData::ended.
ended == I64Ge(cur_time, current_len)

\* AssData::loaded.
loaded == track.some

(***************************************************************************)
(* The state after AssData::new and SourceData's construction: no track,   *)
(* the cursor at 0, nothing recorded, the texture all zero and unmapped.   *)
(***************************************************************************)
NoCall == [op |-> "new", path |-> "", ok |-> TRUE, msecs |-> I64Zero,
           before |-> I64Zero, loaded |-> FALSE, engine |-> FALSE, maps |-> 0,
           change |-> "-", image |-> "-", cleared |-> 0, at |-> I64Zero]
NoTickLocals == [time |-> I64Zero, image |-> NoImage,
                 change |-> "-", n |-> 0, nested |-> FALSE]
NoLoadLocals == [path |-> "", bytes |-> "", len |-> I64Zero, l_track |-> None]
FnOff == [op |-> "off", cd |-> 0, cs |-> 0, k |-> 0, ends |-> <<>>,
          done |-> FALSE, chunk |-> <<0, 0, 0, 0>>, len |-> I64Zero,
          lanes |-> <<>>]

NoHost == [cb |-> "create", pause |-> FALSE, list |-> <<>>]

InitProgram ==
    /\ track = None
    /\ cur_time = I64Zero
    /\ last_image = <<>>
    /\ tex = ZeroTex
    /\ mapped = FALSE
    /\ rwlock = "free"
    /\ pcT = "idle"
    /\ rt = NoTickLocals
    /\ pcL = "idle"
    /\ lt = NoLoadLocals
    /\ ret = NoCall
    /\ shown = <<>>
    /\ seen = None
    /\ inside = FALSE
    /\ state = "Playing"
    /\ playlist = <<>>
    /\ host = NoHost

Init == InitProgram /\ fn = FnOff

\* The elapsed times the host passes to tick: forward, none, backward, and
\* the greatest i64.
Deltas == {I64(600), I64Zero, I64(-1), I64Max}

\* The cursor values that are sums of at most n elapsed times.
RECURSIVE Sums(_)
Sums(n) ==
    IF n = 0 THEN {I64Zero}
    ELSE Sums(n - 1) \cup {overflowing_add(t, d) : t \in Sums(n - 1), d \in Deltas}

Advancable == Sums(MaxTicks - 1)

(***************************************************************************)
(* Spec: calls that run to completion.                                     *)
(***************************************************************************)
\* What render finds in the engine's answer: nothing it looks at when the
\* frame is unchanged, else no image or some image.
ImageKind(image, change) ==
    IF change = "None" THEN "-" ELSE IF image.some THEN "Some" ELSE "None"

\* Mutant of render_tex: without an image the recorded regions stay painted.
render_tex_image_only(image, last, t) ==
    IF image.some THEN DrawImage(image.layers, clear_last(last, t), 1)
    ELSE t

\* Mutant of render_tex: the layers are drawn before the old regions are
\* cleared.
render_tex_draws_first(image, last, t) ==
    IF image.some THEN clear_last(last, DrawImage(image.layers, t, 1))
    ELSE clear_last(last, t)

\* The part of render after the engine reported a change: map, clear_last,
\* last_image.clear(), then draw and push layer by layer.
render_tex(image, last, t) ==
    IF image.some THEN DrawImage(image.layers, clear_last(last, t), 1)
    ELSE clear_last(last, t)

render_last(image) == IF image.some THEN PushAll(image.layers) ELSE <<>>

\* Mutant of render: the Change::None test is missing.
render_always_draws(image, change) ==
    /\ seen' = track
    /\ tex' = render_tex(image, last_image, tex)
    /\ last_image' = render_last(image)
    /\ shown' = image.layers

\* AssData::render, the engine answering (image, change): what becomes of
\* the texture and of last_image.  An unchanged frame's image is dropped
\* unread.
render(image, change) ==
    /\ seen' = track
    /\ IF change = "None"
       THEN UNCHANGED <<tex, last_image, shown>>
       ELSE /\ tex' = render_tex(image, last_image, tex)
            /\ last_image' = render_last(image)
            /\ shown' = image.layers

EngineImages(change) == IF change = "None" THEN {NoImage} ELSE Images

\* Mutant of tick: the cursor is advanced before the track is looked for.
tick_advances_first ==
    \E msecs \in Deltas :
      /\ cur_time \in Advancable
      /\ cur_time' = overflowing_add(cur_time, msecs)
      /\ IF ~track.some
         THEN /\ ret' = [NoCall EXCEPT !.op = "tick", !.msecs = msecs,
                                       !.before = cur_time]
              /\ UNCHANGED <<tex, last_image, shown, seen>>
         ELSE \E change \in Changes : \E image \in EngineImages(change) :
                /\ render(image, change)
                /\ ret' = [NoCall EXCEPT
                             !.op = "tick", !.msecs = msecs, !.before = cur_time,
                             !.loaded = TRUE, !.engine = TRUE, !.change = change,
                             !.maps = IF change = "None" THEN 0 ELSE 1,
                             !.image = ImageKind(image, change),
                             !.cleared = IF change = "None" THEN 0 ELSE Len(last_image),
                             !.at = cur_time']

\* i64::saturating_add(a, b): the sum, or the bound of i64 it passed.
saturating_add(a, b) ==
    LET s == overflowing_add(a, b)
        neg(x) == x[4] >= Limb \div 2
    IN  IF neg(a) = neg(b) /\ neg(s) # neg(a)
        THEN IF neg(a) THEN <<0, 0, 0, Limb \div 2>> ELSE I64Max
        ELSE s

\* Mutant of tick: the cursor stops at the bounds of i64.
tick_saturating ==
    IF ~track.some
    THEN /\ \E msecs \in Deltas :
              ret' = [NoCall EXCEPT !.op = "tick", !.msecs = msecs, !.before = cur_time]
         /\ UNCHANGED <<cur_time, tex, last_image, shown, seen>>
    ELSE /\ cur_time \in Advancable
         /\ \E change \in Changes : \E image \in EngineImages(change) :
              /\ render(image, change)
              /\ \E msecs \in Deltas :
                   /\ cur_time' = saturating_add(cur_time, msecs)
                   /\ ret' = [NoCall EXCEPT
                                !.op = "tick", !.msecs = msecs, !.before = cur_time,
                                !.loaded = TRUE, !.engine = TRUE, !.change = change,
                                !.maps = IF change = "None" THEN 0 ELSE 1,
                                !.image = ImageKind(image, change),
                                !.cleared = IF change = "None" THEN 0
                                            ELSE Len(last_image),
                                !.at = cur_time']

\* AssData::tick(msecs, tex).  render_frame is given the cursor as tick
\* left it.
tick ==
    IF ~track.some
    THEN /\ \E msecs \in Deltas :
              ret' = [NoCall EXCEPT !.op = "tick", !.msecs = msecs, !.before = cur_time]
         /\ UNCHANGED <<cur_time, tex, last_image, shown, seen>>
    ELSE /\ cur_time \in Advancable
         /\ \E change \in Changes : \E image \in EngineImages(change) :
              /\ render(image, change)
              /\ \E msecs \in Deltas :
                   /\ cur_time' = overflowing_add(cur_time, msecs)
                   /\ ret' = [NoCall EXCEPT
                                !.op = "tick", !.msecs = msecs, !.before = cur_time,
                                !.loaded = TRUE, !.engine = TRUE, !.change = change,
                                !.maps = IF change = "None" THEN 0 ELSE 1,
                                !.image = ImageKind(image, change),
                                !.cleared = IF change = "None" THEN 0
                                            ELSE Len(last_image),
                                !.at = cur_time']

Tick ==
    /\ tick
    /\ UNCHANGED <<track, mapped, rwlock, pcT, rt, pcL, lt, inside, fn>>
    /\ UNCHANGED hostvars

\* Mutant of load_track: the cursor is not reset.
load_track_keeps_cursor(path) ==
    LET file == load_file(path)
        new == new_track_from_memory(file.bytes)
    IN  IF file.ok /\ new.ok
        THEN /\ track' = LoadedTrack(new.track, file.len)
             /\ ret' = [NoCall EXCEPT !.op = "load", !.path = path, !.before = cur_time]
             /\ UNCHANGED cur_time
        ELSE /\ ret' = [NoCall EXCEPT !.op = "load", !.path = path, !.ok = FALSE,
                                      !.before = cur_time]
             /\ UNCHANGED <<track, cur_time>>

\* Mutant of load_track: the cursor is reset before the file is read.
load_track_resets_first(path) ==
    LET file == load_file(path)
        new == new_track_from_memory(file.bytes)
    IN  /\ cur_time' = I64Zero
        /\ IF file.ok /\ new.ok
           THEN /\ track' = LoadedTrack(new.track, file.len)
                /\ ret' = [NoCall EXCEPT !.op = "load", !.path = path,
                                         !.before = cur_time]
           ELSE /\ ret' = [NoCall EXCEPT !.op = "load", !.path = path, !.ok = FALSE,
                                         !.before = cur_time]
                /\ UNCHANGED track

\* AssData::load_track(path), with SourceData::load_track logging the error.
load_track(path) ==
    LET file == load_file(path)
        new == new_track_from_memory(file.bytes)
    IN  IF file.ok /\ new.ok
        THEN /\ track' = LoadedTrack(new.track, file.len)
             /\ cur_time' = I64Zero
             /\ ret' = [NoCall EXCEPT !.op = "load", !.path = path, !.before = cur_time]
        ELSE /\ ret' = [NoCall EXCEPT !.op = "load", !.path = path, !.ok = FALSE,
                                      !.before = cur_time]
             /\ UNCHANGED <<track, cur_time>>

LoadTrack ==
    /\ \E path \in Paths : load_track(path)
    /\ UNCHANGED <<last_image, tex, mapped, rwlock, pcT, rt, pcL, lt, shown, seen,
                   inside, fn>>
    /\ UNCHANGED hostvars

Next == Tick \/ LoadTrack

Spec == Init /\ [][Next]_vars

(***************************************************************************)
(* SpecConc: the host's render thread calls tick while its update thread   *)
(* calls load_track.  A step is what a thread does between two points      *)
(* where the other thread can be observed: taking or dropping the RwLock,  *)
(* and each access to a field outside it.  The history ret belongs to      *)
(* Spec and stays as it is here.                                           *)
(***************************************************************************)
\* tick: self.track.read().unwrap().is_none(), under the read lock, which
\* the statement takes and drops; the call returns if there is no track.
tick_check ==
    /\ pcT = "idle"
    /\ rwlock = "free"
    /\ IF ~track.some
       THEN UNCHANGED <<pcT, rt>>
       ELSE /\ pcT' = "read"
            /\ rt' = NoTickLocals
    /\ UNCHANGED <<track, cur_time, last_image, tex, mapped, rwlock, pcL, lt,
                   ret, shown, seen, inside, fn>>
    /\ UNCHANGED hostvars

\* tick: self.cur_time.overflowing_add(msecs) reads the cursor ...
tick_read ==
    /\ pcT = "read"
    /\ cur_time \in Advancable
    /\ pcT' = "store"
    /\ rt' = [rt EXCEPT !.time = cur_time]
    /\ UNCHANGED <<track, cur_time, last_image, tex, mapped, rwlock, pcL, lt,
                   ret, shown, seen, inside, fn>>
    /\ UNCHANGED hostvars

\* ... and self.cur_time = .. stores the sum; then render is entered.
\* msecs, the argument of tick, is drawn here, where tick uses it.
tick_store ==
    /\ pcT = "store"
    /\ \E msecs \in Deltas : cur_time' = overflowing_add(rt.time, msecs)
    /\ pcT' = "lock"
    /\ rt' = [NoTickLocals EXCEPT !.nested = pcL # "idle"]
    /\ UNCHANGED <<track, last_image, tex, mapped, rwlock, pcL, lt, ret, shown,
                   seen, inside, fn>>
    /\ UNCHANGED hostvars

\* Mutant of render_lock: render does not wait for the lock.
render_lock_unguarded ==
    /\ pcT = "lock"
    /\ rwlock' = "render"
    /\ pcT' = "frame"
    /\ UNCHANGED <<track, cur_time, last_image, tex, mapped, rt, pcL, lt, ret,
                   shown, seen, inside, fn>>
    /\ UNCHANGED hostvars

\* render: self.track.write().unwrap() waits until nobody holds the lock.
render_lock ==
    /\ pcT = "lock"
    /\ rwlock = "free"
    /\ rwlock' = "render"
    /\ pcT' = "frame"
    /\ UNCHANGED <<track, cur_time, last_image, tex, mapped, rt, pcL, lt, ret,
                   shown, seen, inside, fn>>
    /\ UNCHANGED hostvars

\* render: track_guard.as_mut().unwrap() panics on an empty slot, poisoning
\* the lock; otherwise render_frame answers for the slot's track and the
\* guard is dropped at the end of the block.  An unchanged frame returns.
render_frame ==
    /\ pcT = "frame"
    /\ IF ~track.some
       THEN /\ pcT' = "panic"
            /\ rwlock' = "poisoned"
            /\ UNCHANGED <<rt, seen, inside>>
       ELSE /\ seen' = track
            /\ rwlock' = "free"
            /\ \E change \in Changes : \E image \in EngineImages(change) :
                 IF change = "None"
                 THEN /\ pcT' = "idle"
                      /\ rt' = NoTickLocals
                      /\ inside' = rt.nested
                 ELSE /\ pcT' = "map"
                      /\ rt' = [rt EXCEPT !.image = image, !.change = change]
                      /\ UNCHANGED inside
    /\ UNCHANGED <<track, cur_time, last_image, tex, mapped, pcL, lt, ret, shown, fn>>
    /\ UNCHANGED hostvars

\* render: let mut map = dst.map().unwrap().  change is not read again.
render_map ==
    /\ pcT = "map"
    /\ mapped' = TRUE
    /\ pcT' = "clear"
    /\ rt' = [rt EXCEPT !.change = "-"]
    /\ shown' = rt.image.layers
    /\ UNCHANGED <<track, cur_time, last_image, tex, rwlock, pcL, lt, ret,
                   seen, inside, fn>>
    /\ UNCHANGED hostvars

\* render: clear_last(&self.last_image, &mut map); self.last_image.clear().
render_clear ==
    /\ pcT = "clear"
    /\ tex' = clear_last(last_image, tex)
    /\ last_image' = <<>>
    /\ pcT' = "draw"
    /\ rt' = [rt EXCEPT !.n = 1]
    /\ UNCHANGED <<track, cur_time, mapped, rwlock, pcL, lt, ret, shown, seen,
                   inside, fn>>
    /\ UNCHANGED hostvars

\* render: one turn of the loop over the layers: draw_layer, then push.
render_draw ==
    /\ pcT = "draw"
    /\ rt.image.some /\ rt.n <= Len(rt.image.layers)
    /\ tex' = draw_layer(rt.image.layers[rt.n], tex, dst_w)
    /\ last_image' = Append(last_image, from_layer(rt.image.layers[rt.n]))
    /\ rt' = [rt EXCEPT !.n = rt.n + 1]
    /\ UNCHANGED <<track, cur_time, mapped, rwlock, pcT, pcL, lt, ret, shown,
                   seen, inside, fn>>
    /\ UNCHANGED hostvars

\* Mutant of render_return: the mapping outlives the call.
render_return_mapped ==
    /\ pcT = "draw"
    /\ ~(rt.image.some /\ rt.n <= Len(rt.image.layers))
    /\ pcT' = "idle"
    /\ rt' = NoTickLocals
    /\ inside' = rt.nested
    /\ UNCHANGED <<track, cur_time, last_image, tex, mapped, rwlock, pcL, lt, ret,
                   shown, seen, fn>>
    /\ UNCHANGED hostvars

\* render: the loop is over (or there was no image); map is dropped and
\* render, then tick, return.
render_return ==
    /\ pcT = "draw"
    /\ ~(rt.image.some /\ rt.n <= Len(rt.image.layers))
    /\ mapped' = FALSE
    /\ pcT' = "idle"
    /\ rt' = NoTickLocals
    /\ inside' = rt.nested
    /\ UNCHANGED <<track, cur_time, last_image, tex, rwlock, pcL, lt, ret, shown,
                   seen, fn>>
    /\ UNCHANGED hostvars

\* load_track: Self::load_file(path)?.  When load_track returns, no render
\* under way began within this call any more.
load_track_file ==
    /\ pcL = "idle"
    /\ \E path \in Paths :
         LET file == load_file(path)
         IN  IF file.ok
             THEN /\ pcL' = "new_track"
                  /\ lt' = [NoLoadLocals EXCEPT !.path = path, !.bytes = file.bytes,
                                                !.len = file.len]
                  /\ UNCHANGED rt
             ELSE /\ rt' = [rt EXCEPT !.nested = FALSE]
                  /\ UNCHANGED <<pcL, lt>>
    /\ UNCHANGED <<track, cur_time, last_image, tex, mapped, rwlock, pcT, ret,
                   shown, seen, inside, fn>>
    /\ UNCHANGED hostvars

\* Mutant of load_track_new: a file the engine rejects empties the slot.
load_track_new_clears ==
    /\ pcL = "new_track"
    /\ LET new == new_track_from_memory(lt.bytes)
       IN  IF new.ok
           THEN /\ pcL' = "lock"
                /\ lt' = [lt EXCEPT !.l_track = LoadedTrack(new.track, lt.len)]
                /\ UNCHANGED <<rt, track>>
           ELSE /\ pcL' = "idle"
                /\ lt' = NoLoadLocals
                /\ rt' = [rt EXCEPT !.nested = FALSE]
                /\ track' = None
    /\ UNCHANGED <<cur_time, last_image, tex, mapped, rwlock, pcT, ret,
                   shown, seen, inside, fn>>
    /\ UNCHANGED hostvars

\* load_track: self.lib_ref().new_track_from_memory(&file_bytes, "UTF-8")?
\* and LoadedTrack::new(track, track_len).
load_track_new ==
    /\ pcL = "new_track"
    /\ LET new == new_track_from_memory(lt.bytes)
       IN  IF new.ok
           THEN /\ pcL' = "lock"
                /\ lt' = [lt EXCEPT !.l_track = LoadedTrack(new.track, lt.len)]
                /\ UNCHANGED rt
           ELSE /\ pcL' = "idle"
                /\ lt' = NoLoadLocals
                /\ rt' = [rt EXCEPT !.nested = FALSE]
    /\ UNCHANGED <<track, cur_time, last_image, tex, mapped, rwlock, pcT, ret,
                   shown, seen, inside, fn>>
    /\ UNCHANGED hostvars

\* load_track: self.track.write().unwrap() waits until nobody holds the
\* lock, and panics if a panic of the other thread poisoned it.
load_track_lock ==
    /\ pcL = "lock"
    /\ rwlock \in {"free", "poisoned"}
    /\ IF rwlock = "poisoned"
       THEN pcL' = "panic" /\ UNCHANGED rwlock
       ELSE pcL' = "replace" /\ rwlock' = "load"
    /\ UNCHANGED <<track, cur_time, last_image, tex, mapped, pcT, rt, lt, ret,
                   shown, seen, inside, fn>>
    /\ UNCHANGED hostvars

\* load_track: .replace(l_track) moves the new value into the slot.  The
\* move is a copy of several words; it is modelled as two writes, the first
\* leaving the new track handle beside the old length.
load_track_replace ==
    /\ pcL = "replace"
    /\ track' = [some |-> TRUE, track |-> lt.l_track.track, len |-> track.len]
    /\ pcL' = "replace2"
    /\ UNCHANGED <<cur_time, last_image, tex, mapped, rwlock, pcT, rt, lt, ret,
                   shown, seen, inside, fn>>
    /\ UNCHANGED hostvars

\* ... the second write completes the value; the old track and then the
\* guard are dropped at the end of the statement.
load_track_replaced ==
    /\ pcL = "replace2"
    /\ track' = lt.l_track
    /\ rwlock' = "free"
    /\ pcL' = "reset"
    /\ UNCHANGED <<cur_time, last_image, tex, mapped, pcT, rt, lt, ret, shown,
                   seen, inside, fn>>
    /\ UNCHANGED hostvars

\* load_track: self.cur_time = 0; Ok(()).
load_track_reset ==
    /\ pcL = "reset"
    /\ cur_time' = I64Zero
    /\ pcL' = "idle"
    /\ lt' = NoLoadLocals
    /\ rt' = [rt EXCEPT !.nested = FALSE]
    /\ UNCHANGED <<track, last_image, tex, mapped, rwlock, pcT, ret, shown, seen,
                   inside, fn>>
    /\ UNCHANGED hostvars

NextConc ==
    \/ tick_check \/ tick_read \/ tick_store
    \/ render_lock \/ render_frame \/ render_map \/ render_clear
    \/ render_draw \/ render_return
    \/ load_track_file \/ load_track_new \/ load_track_lock
    \/ load_track_replace \/ load_track_replaced \/ load_track_reset

SpecConc == Init /\ [][NextConc]_vars

(***************************************************************************)
(* SpecFn: the pure functions on inputs drawn from bounded sets.           *)
(*   blend  draw_layer on a texture of one pixel whose four bytes are cd,  *)
(*          with a layer of one pixel, coverage k and the grey colour      *)
(*          whose four stored bytes are cs;                                *)
(*   len    the duration load_file computes for a list of end timestamps.  *)
(***************************************************************************)
Bytes == 0..255
Coverages == {0, 128, 255}
EndTimes == {500, 900, 1200}

InitFn ==
    /\ InitProgram
    /\ \/ \E cd \in Bytes, cs \in Bytes, k \in Coverages :
            fn = [FnOff EXCEPT !.op = "blend", !.cd = cd, !.cs = cs, !.k = k]
       \/ \E ends \in SeqsUpTo(EndTimes, MaxEntries) :
            fn = [FnOff EXCEPT !.op = "len", !.ends = ends]

OnePixel(cd) == [b \in 0..3 |-> cd]
GreyLayer(cs, k) ==
    [x |-> 0, y |-> 0, width |-> 1, height |-> 1,
     color |-> <<cs * 256 + cs, cs * 256 + cs>>, bitmap |-> <<k>>]

BlendApply ==
    /\ fn.op = "blend" /\ ~fn.done
    /\ fn' = [fn EXCEPT
                !.done = TRUE,
                !.chunk = LET t == draw_layer(GreyLayer(fn.cs, fn.k), OnePixel(fn.cd), 1)
                          IN  <<t[0], t[1], t[2], t[3]>>]
    /\ UNCHANGED <<track, cur_time, last_image, tex, mapped, rwlock, pcT, rt, pcL,
                   lt, ret, shown, seen, inside>>
    /\ UNCHANGED hostvars

LenApply ==
    /\ fn.op = "len" /\ ~fn.done
    /\ fn' = [fn EXCEPT !.done = TRUE, !.len = track_len(fn.ends)]
    /\ UNCHANGED <<track, cur_time, last_image, tex, mapped, rwlock, pcT, rt, pcL,
                   lt, ret, shown, seen, inside>>
    /\ UNCHANGED hostvars

NextFn == BlendApply \/ LenApply

SpecFn == InitFn /\ [][NextFn]_vars

(***************************************************************************)
(* SpecLane: the lane arithmetic of draw_layer's closure for every          *)
(* destination byte and coverage byte, applied to every source byte.       *)
(***************************************************************************)
InitLane ==
    /\ InitProgram
    /\ \E cd \in Bytes, k \in Bytes :
         fn = [FnOff EXCEPT !.op = "lane", !.cd = cd, !.k = k]

LaneApply ==
    /\ fn.op = "lane" /\ ~fn.done
    /\ fn' = [fn EXCEPT !.done = TRUE,
                        !.lanes = [cs \in Bytes |-> BlendLane(fn.cd, cs, fn.k)]]
    /\ UNCHANGED <<track, cur_time, last_image, tex, mapped, rwlock, pcT, rt, pcL,
                   lt, ret, shown, seen, inside>>
    /\ UNCHANGED hostvars

NextLane == LaneApply

SpecLane == InitLane /\ [][NextLane]_vars

(***************************************************************************)
(* SpecHost: the callbacks the module registers with the host, each run to *)
(* completion: play_pause, video_tick and update on the SourceData that    *)
(* create returned.                                                        *)
(***************************************************************************)
\* The f32 seconds the host passes to video_tick: a finite number given in
\* microseconds, an infinity, or NaN.
Seconds ==
    { [kind |-> "finite", us |-> 600000], [kind |-> "finite", us |-> 400],
      [kind |-> "finite", us |-> -1500], [kind |-> "inf", us |-> 0],
      [kind |-> "nan", us |-> 0] }

\* (seconds * 1000.0) as i64: the product truncated toward zero; a NaN
\* gives 0 and what is beyond i64 gives the bound of i64.
as_i64(seconds) ==
    CASE seconds.kind = "nan" -> I64Zero
      [] seconds.kind = "inf" -> I64Max
      [] OTHER -> IF seconds.us >= 0 THEN I64(seconds.us \div 1000)
                  ELSE I64(-((-seconds.us) \div 1000))

\* The lists of the "playlist" setting the host passes to update.
Playlists == { <<>>, <<"rejected.ass", "three.ass">>, <<"three.ass", "empty.ass">> }

\* What no call into AssData leaves in the history.
NoAssCall == [NoCall EXCEPT !.op = "none"]

\* MediaPlayPauseSource::play_pause(data, pause).
play_pause(pause) ==
    state' = CASE state = "Playing" /\ pause -> "Paused"
               [] state = "Paused" /\ ~pause -> "Playing"
               [] OTHER -> state

PlayPause ==
    /\ \E pause \in BOOLEAN :
         /\ play_pause(pause)
         /\ host' = [NoHost EXCEPT !.cb = "play_pause", !.pause = pause]
    /\ ret' = NoAssCall
    /\ UNCHANGED <<track, cur_time, last_image, tex, mapped, rwlock, pcT, rt, pcL,
                   lt, shown, seen, inside, fn, playlist>>

\* Mutant of video_tick: the state is not looked at.
video_tick_unconditional ==
    tick /\ \E seconds \in Seconds : ret'.msecs = as_i64(seconds)

\* VideoTickSource::video_tick(data, seconds): while Playing,
\* data.ass.tick((seconds * 1000.0) as i64, &mut data.tex), for each
\* seconds the host can pass.
video_tick ==
    IF state = "Playing"
    THEN tick /\ \E seconds \in Seconds : ret'.msecs = as_i64(seconds)
    ELSE /\ ret' = NoAssCall
         /\ UNCHANGED <<cur_time, tex, last_image, shown, seen>>

VideoTick ==
    /\ video_tick
    /\ host' = [NoHost EXCEPT !.cb = "video_tick"]
    /\ UNCHANGED <<track, mapped, rwlock, pcT, rt, pcL, lt, inside, fn, state,
                   playlist>>

\* The loop of update over new_list: playlist.push(path) for the items i.. .
RECURSIVE PushItems(_, _, _)
PushItems(list, new_list, i) ==
    IF i > Len(new_list) THEN list
    ELSE PushItems(Append(list, new_list[i]), new_list, i + 1)

\* Mutant of update: the first entry is loaded whenever there is one.
update_always_loads(new_list) ==
    /\ playlist' = PushItems(<<>>, new_list, 1)
    /\ IF playlist' # <<>>
       THEN load_track(playlist'[1])
       ELSE /\ ret' = NoAssCall
            /\ UNCHANGED <<track, cur_time>>

\* UpdateSource::update(data, settings), new_list being the "playlist"
\* setting: playlist.clear(), the pushes, then the load of the first entry
\* if no track is loaded.
update(new_list) ==
    /\ playlist' = PushItems(<<>>, new_list, 1)
    /\ IF ~loaded /\ playlist' # <<>>
       THEN load_track(playlist'[1])
       ELSE /\ ret' = NoAssCall
            /\ UNCHANGED <<track, cur_time>>

Update ==
    /\ \E new_list \in Playlists :
         /\ update(new_list)
         /\ host' = [NoHost EXCEPT !.cb = "update", !.list = new_list]
    /\ UNCHANGED <<last_image, tex, mapped, rwlock, pcT, rt, pcL, lt, shown, seen,
                   inside, fn, state>>

NextHost == PlayPause \/ VideoTick \/ Update

SpecHost == Init /\ [][NextHost]_vars

(***************************************************************************)
(* The claims.                                                             *)
(***************************************************************************)
\* Column and row of the pixel a byte of the texture belongs to, and
\* whether a rectangle covers that pixel.
Col(b) == (b \div 4) % TexW
Row(b) == (b \div 4) \div TexW
Covers(r, b) ==
    /\ r.x <= Col(b) /\ Col(b) < r.x + r.width
    /\ r.y <= Row(b) /\ Row(b) < r.y + r.height

\* The greatest of a list of end timestamps, 0 for the empty list.
Greatest(ends) ==
    IF ends = <<>> THEN 0
    ELSE CHOOSE e \in {ends[n] : n \in 1..Len(ends)} :
            \A n \in 1..Len(ends) : ends[n] <= e

\* a >= b as signed 64-bit numbers: the upper 32 bits as a signed number,
\* then the two lower limbs.
Upper(a) == (IF a[4] >= Limb \div 2 THEN a[4] - Limb ELSE a[4]) * Limb + a[3]
AtLeast(a, b) ==
    \/ Upper(a) > Upper(b)
    \/ Upper(a) = Upper(b) /\ a[2] > b[2]
    \/ Upper(a) = Upper(b) /\ a[2] = b[2] /\ a[1] >= b[1]

\* A file load_track cannot load: unreadable, unparsable or rejected by the
\* engine.
BadFile(path) ==
    LET f == File(path) IN ~(f.readable /\ f.parse /\ f.entries /\ f.engine)

\* A slot content that is a whole value: empty, or a track with its own
\* duration.
Whole(t) ==
    \/ t = None
    \/ \E path \in Paths :
         /\ ~BadFile(path)
         /\ t = [some |-> TRUE, track |-> path, len |-> I64(Greatest(File(path).ends))]

\* Channel c (0..3) of the colour a layer is blended with: the bytes of the
\* packed colour from the most significant down, the last one inverted.
SourceChannel(layer, c) ==
    CASE c = 0 -> layer.color[1] \div 256
      [] c = 1 -> layer.color[1] % 256
      [] c = 2 -> layer.color[2] \div 256
      [] OTHER -> 255 - (layer.color[2] % 256)

\* The coverage a layer has for the pixel of byte b, which it covers.
CoverageAt(layer, b) ==
    layer.bitmap[(Row(b) - layer.y) * layer.width + (Col(b) - layer.x) + 1]

\* The value of byte b after the layers n.. of a sequence were blended, one
\* after the other, over the value v.
RECURSIVE BlendedOver(_, _, _, _)
BlendedOver(layers, b, n, v) ==
    IF n > Len(layers) THEN v
    ELSE BlendedOver(layers, b, n + 1,
            IF Covers(layers[n], b)
            THEN LET k == CoverageAt(layers[n], b)
                 IN  (v * (255 - k) + SourceChannel(layers[n], b % 4) * k) \div 255
            ELSE v)

\* The sum of two i64 modulo 2^64, added byte by byte from the least
\* significant with the carry passed on.
ByteOf(a, i) == IF i % 2 = 0 THEN a[i \div 2 + 1] % 256 ELSE a[i \div 2 + 1] \div 256
RECURSIVE CarryInto(_, _, _)
CarryInto(a, b, i) ==
    IF i = 0 THEN 0
    ELSE (ByteOf(a, i - 1) + ByteOf(b, i - 1) + CarryInto(a, b, i - 1)) \div 256
SumByte(a, b, i) == (ByteOf(a, i) + ByteOf(b, i) + CarryInto(a, b, i)) % 256
WrappingSum(a, b) ==
    [l \in 1..4 |-> SumByte(a, b, 2 * l - 2) + 256 * SumByte(a, b, 2 * l - 1)]

\* C1: between operations, last_image is exactly the list of the rectangles
\* of the layers drawn by the latest render that reported a change (empty if
\* there was none), and every byte of the texture outside all the recorded
\* rectangles is zero.
C1_DirtyRegionsExact ==
    /\ last_image = [n \in 1..Len(shown) |->
                        [width |-> shown[n].width, height |-> shown[n].height,
                         x |-> shown[n].x, y |-> shown[n].y]]
    /\ \A b \in TexBytes :
         (\A n \in 1..Len(last_image) : ~Covers(last_image[n], b)) => tex[b] = 0

\* A changed render that cleared earlier regions left one narrow layer:
\* the first pixel is outside it and zero, something inside it is painted.
C1_Witness ==
    /\ ret.op = "tick" /\ ret.maps = 1 /\ ret.before # I64Zero
    /\ Len(last_image) = 1 /\ last_image[1].width = 1 /\ last_image[1].x = TexW - 1
    /\ tex[0] = 0
    /\ \E b \in TexBytes : tex[b] # 0

\* C2: while no track is loaded, a tick leaves the cursor, the dirty-region
\* list and the texture as they were, does not call the engine and does not
\* map the texture.
C2_TickWithoutTrack ==
    [][(~track.some /\ ret'.op = "tick")
        => /\ cur_time' = cur_time
           /\ last_image' = last_image
           /\ tex' = tex
           /\ mapped' = mapped
           /\ seen' = seen
           /\ ~ret'.engine
           /\ ret'.maps = 0]_vars

\* A tick with the greatest elapsed time returned while no track was loaded.
C2_Witness ==
    /\ ret.op = "tick" /\ ~ret.loaded /\ ~track.some
    /\ ret.msecs = I64Max

\* C3: right after a load_track that returned Ok the cursor is 0 and the
\* installed track is the newly loaded one, with its duration.
C3_CursorResetOnLoad ==
    (ret.op = "load" /\ ret.ok)
        => /\ current_time = I64Zero
           /\ track.some
           /\ track.track = ret.path
           /\ current_len = I64(Greatest(File(ret.path).ends))

\* A load succeeded over another track whose cursor had been advanced.
C3_Witness ==
    /\ ret.op = "load" /\ ret.ok /\ ret.path = "three.ass"
    /\ ret.before # I64Zero
    /\ seen.some /\ seen.track = "empty.ass"

\* C4: a load_track of a file that cannot be loaded returns an error and
\* leaves the slot, the cursor, the dirty-region list and the texture as they
\* were; the tick after it renders the track installed before.
C4_FailedLoadChangesNothing ==
    [][/\ (ret'.op = "load" /\ BadFile(ret'.path))
            => /\ ~ret'.ok
               /\ track' = track
               /\ cur_time' = cur_time
               /\ last_image' = last_image
               /\ tex' = tex
       /\ (ret.op = "load" /\ ~ret.ok /\ ret'.op = "tick" /\ track.some)
            => /\ ret'.engine
               /\ seen' = track]_vars

\* The engine rejected a file while a track was loaded, its cursor advanced
\* and a frame painted.
C4_Witness ==
    /\ ret.op = "load" /\ ~ret.ok /\ ret.path = "rejected.ass"
    /\ track.some /\ cur_time # I64Zero
    /\ last_image # <<>> /\ tex # ZeroTex

\* C5: a render for which the engine reports no change leaves every byte of
\* the texture and the dirty-region list as they were and does not map the
\* texture; only the cursor has advanced.
C5_UnchangedFrame ==
    [][(ret'.op = "tick" /\ ret'.change = "None")
        => /\ tex' = tex
           /\ last_image' = last_image
           /\ ret'.maps = 0
           /\ ~mapped'
           /\ cur_time' = overflowing_add(cur_time, ret'.msecs)]_vars

\* An unchanged render returned at the second tick in a row while a frame was
\* painted.
C5_Witness ==
    /\ ret.op = "tick" /\ ret.change = "None" /\ ret.before # I64Zero
    /\ last_image # <<>> /\ tex # ZeroTex

\* C6: every call of the engine gets a slot content that is a whole track,
\* the old one or the new one: the engine is called with the write lock held
\* and the slot whole, the slot is replaced only with the write lock held,
\* and the slot is not whole only in the middle of a replacement.
C6_NoTornTrack ==
    /\ Whole(seen)
    /\ pcT = "frame" => (rwlock = "render" /\ Whole(track))
    /\ pcL \in {"replace", "replace2"} => rwlock = "load"
    /\ ~Whole(track) => pcL = "replace2"

\* The slot is half replaced while render, which drew the old track before,
\* waits for the lock.
C6_Witness ==
    /\ ~Whole(track) /\ pcL = "replace2"
    /\ pcT = "lock"
    /\ seen.some

\* C7: renders and loads are fully serialized: no load installs its track
\* while a render call is between its engine call and its end, and no render
\* starts and finishes inside one load_track call.
C7_FullySerialized ==
    /\ ~(pcL \in {"replace", "replace2"} /\ pcT \in {"map", "clear", "draw"})
    /\ ~inside

\* C8: ended() is true exactly when current_time() >= current_len(), where
\* current_len() is 0 while no track is loaded.
C8_EndDetection ==
    /\ current_len = (IF track = None THEN I64Zero ELSE track.len)
    /\ ended <=> AtLeast(cur_time, IF track = None THEN I64Zero ELSE track.len)

\* The cursor stands exactly at the duration of a track of 1200 ms.
C8_Witness ==
    /\ track.some /\ track.len = I64(1200)
    /\ cur_time = I64(1200)
    /\ ended

\* C9: the duration computed for a list of timed entries is the greatest end
\* timestamp, and 0 for no entries.
C9_Duration ==
    (fn.op = "len" /\ fn.done) => fn.len = I64(Greatest(fn.ends))

\* The ends 500, 1200, 900 gave 1200.
C9_Witness ==
    /\ fn.op = "len" /\ fn.done
    /\ fn.ends = <<500, 1200, 900>>
    /\ fn.len = I64(1200)

\* C10: coverage 0 leaves every channel of the destination as it was and
\* coverage 255 sets it to the source channel, the fourth source channel
\* being 255 minus the stored alpha.
C10_BlendBoundaries ==
    (fn.op = "blend" /\ fn.done)
        => /\ fn.k = 0 => fn.chunk = <<fn.cd, fn.cd, fn.cd, fn.cd>>
           /\ fn.k = 255 => fn.chunk = <<fn.cs, fn.cs, fn.cs, 255 - fn.cs>>

\* Full coverage of a colour with stored alpha 0 over a destination of 200.
C10_Witness ==
    /\ fn.op = "blend" /\ fn.done
    /\ fn.k = 255 /\ fn.cs = 0 /\ fn.cd = 200
    /\ fn.chunk = <<0, 0, 0, 255>>

\* C11: for all Cd, Cs, k in 0..255 the channel value draw_layer writes is
\* floor((Cd * (255 - k) + Cs * k) / 255) of unbounded integers: neither
\* product nor their sum exceeds 65535 and the result is in 0..255.
C11_LaneExact ==
    (fn.op = "lane" /\ fn.done)
        => \A cs \in Bytes :
             /\ fn.lanes[cs] = (fn.cd * (255 - fn.k) + cs * fn.k) \div 255
             /\ fn.cd * (255 - fn.k) <= 65535
             /\ cs * fn.k <= 65535
             /\ fn.cd * (255 - fn.k) + cs * fn.k <= 65535
             /\ (fn.cd * (255 - fn.k) + cs * fn.k) \div 255 \in 0..255

\* Destination 200 under coverage 128: source 100 gives 149 (38200 / 255,
\* truncated) and source 255 gives 227.
C11_Witness ==
    /\ fn.op = "lane" /\ fn.done
    /\ fn.cd = 200 /\ fn.k = 128
    /\ fn.lanes[100] = 149
    /\ fn.lanes[255] = 227

\* C12: a render that reports a change with zero layers (an empty layer
\* sequence or no image) zero-fills every previously recorded dirty region
\* and leaves the dirty-region list empty: when it has returned, however
\* many regions it was handed, the list is empty and, the bytes outside the
\* regions being zero already, every byte of the texture is zero.
C12_EmptyChangedFrame ==
    (ret.op = "tick" /\ ret.maps = 1 /\ shown = <<>>)
        => /\ last_image = <<>>
           /\ \A b \in TexBytes : tex[b] = 0

\* A changed render without an image cleared two recorded regions.
C12_Witness ==
    /\ ret.op = "tick" /\ ret.maps = 1 /\ ret.image = "None"
    /\ ret.cleared = 2
    /\ shown = <<>> /\ last_image = <<>> /\ tex = ZeroTex

\* C13: within a changed render every old region is zero-filled before the
\* first layer is composited and the layers are composited in the order the
\* engine returned them: every byte of the texture, in an old region or
\* not, is the layers of the latest changed render blended in order over
\* zero, never over what an earlier frame painted.
C13_ClearBeforeDraw ==
    \A b \in TexBytes : tex[b] = BlendedOver(shown, b, 1, 0)

\* Over two painted regions the ramp layer and then the column layer were
\* drawn: the last pixel, which both cover, has the column layer's colour.
C13_Witness ==
    /\ ret.op = "tick" /\ ret.maps = 1 /\ ret.cleared = 2
    /\ Len(shown) = 2 /\ shown[1].width = TexW /\ shown[2].width = 1
    /\ LET p == (TexW * TexH - 1) * 4
       IN  <<tex[p], tex[p + 1], tex[p + 2], tex[p + 3]>> = <<0, 64, 255, 127>>

\* C14: with a track loaded, tick(delta) sets the cursor to the wrapping
\* 64-bit sum of the old cursor and delta, whatever delta is, and then
\* renders once, at the new cursor; the cursor is not clamped.  Stated of
\* the state a tick returns in, ret.before being the cursor it found.
C14_WrappingAdvance ==
    (ret.op = "tick" /\ ret.loaded)
        => /\ cur_time = WrappingSum(ret.before, ret.msecs)
           /\ ret.engine
           /\ ret.at = cur_time
           /\ seen = track

\* From the greatest i64 a tick of 600 ms went to the least i64 plus 599.
C14_Witness ==
    /\ ret.op = "tick" /\ ret.loaded /\ ret.engine
    /\ ret.before = I64Max /\ ret.msecs = I64(600)
    /\ cur_time = <<599, 0, 0, Limb \div 2>>
    /\ ret.at = cur_time

\* C15: the texture is mapped only inside a render whose engine result is a
\* change, no mapping is alive when render maps it, and it is unmapped
\* whenever render is not between its map and its return: after the
\* unchanged path, the path with layers and the path without layers alike.
C15_ScopedMapping ==
    /\ mapped => pcT \in {"clear", "draw"}
    /\ pcT = "map" => (~mapped /\ rt.change \in {"Position", "Content"})
    /\ pcT \in {"idle", "read", "store", "lock", "frame", "panic"} => ~mapped

\* A changed render that painted layers has returned, the texture unmapped,
\* while a load is in the middle of replacing the track.
C15_Witness ==
    /\ pcT = "idle" /\ ~mapped
    /\ last_image # <<>> /\ tex # ZeroTex
    /\ pcL = "replace2"

\* C16: in every state in which no track is loaded, current_time() is 0,
\* current_len() is 0, the dirty-region list is empty and ended() is true.
C16_UnloadedNoProgress ==
    ~loaded => /\ current_time = I64Zero
               /\ current_len = I64Zero
               /\ last_image = <<>>
               /\ ended

\* The engine rejected a file while no track was loaded: there is still no
\* track, and the end is reported at time 0.
C16_Witness ==
    /\ ~loaded
    /\ ret.op = "load" /\ ~ret.ok /\ ret.path = "rejected.ass"
    /\ current_time = I64Zero /\ ended

\* C17: installing the track and resetting the cursor act as one step for
\* the render thread: while load_track is between its replace and its reset
\* the render thread neither reads nor writes the cursor nor calls the
\* engine, and the reset does not fall between a tick's read of the cursor
\* and its store.  So every render of the new track is at a time counted
\* from that load's reset, and no reset is overwritten.
C17_AtomicInstallReset ==
    [][/\ (pcL = "reset" /\ pcT \in {"read", "store", "frame"}) => pcT' = pcT
       /\ (pcL = "reset" /\ pcT = "store") => pcL' = pcL]_vars

\* C18: the slot never goes from loaded back to empty, whatever tick or load
\* comes next; so from tick's test to the end of render the slot is not
\* empty, and neither render nor a later load panics.
C18_NeverUnloaded ==
    /\ [][loaded => loaded']_vars
    /\ [](pcT \in {"read", "store", "lock", "frame", "map", "clear", "draw"} => loaded)
    /\ [](pcT # "panic" /\ pcL # "panic" /\ rwlock # "poisoned")

\* render holds the lock and unwraps a track that a load, not yet at its
\* reset, installed after the previous render.
C18_Witness ==
    /\ pcT = "frame" /\ rwlock = "render" /\ loaded
    /\ pcL = "reset"
    /\ seen.some /\ seen.track # track.track

\* C19: the play/pause state starts as Playing and changes only from
\* Playing to Paused on pause = true and from Paused to Playing on
\* pause = false; while it is Paused, video_tick does not call
\* AssData::tick, and the cursor, the dirty-region list and the texture stay
\* as they were.
C19_PlayPause ==
    /\ state = "Playing"
    /\ [][/\ state' # state
               => /\ host'.cb = "play_pause"
                  /\ \/ state = "Playing" /\ host'.pause /\ state' = "Paused"
                     \/ state = "Paused" /\ ~host'.pause /\ state' = "Playing"
          /\ (host'.cb = "play_pause" /\ state = "Playing" /\ host'.pause)
               => state' = "Paused"
          /\ (host'.cb = "play_pause" /\ state = "Paused" /\ ~host'.pause)
               => state' = "Playing"
          /\ (host'.cb = "video_tick" /\ state = "Paused")
               => /\ ret'.op = "none"
                  /\ cur_time' = cur_time
                  /\ last_image' = last_image
                  /\ tex' = tex]_vars

\* A host tick returned while the state was Paused, over a painted frame
\* of a track whose cursor had been advanced.
C19_Witness ==
    /\ state = "Paused" /\ host.cb = "video_tick" /\ ret.op = "none"
    /\ loaded /\ cur_time # I64Zero
    /\ last_image # <<>> /\ tex # ZeroTex

\* C20: update replaces the stored playlist with the new list and calls
\* load_track, with the first entry, exactly when no track is loaded and
\* the new list is not empty; with a track loaded it leaves the track and
\* the cursor as they were.
C20_UpdateLoadsOnce ==
    [][host'.cb = "update"
        => /\ playlist' = host'.list
           /\ ret'.op = "load" <=> (~loaded /\ host'.list # <<>>)
           /\ ret'.op = "load" => ret'.path = host'.list[1]
           /\ loaded => (track' = track /\ cur_time' = cur_time)]_vars

\* With a track loaded and its cursor advanced, an update to a list of
\* other files replaced the playlist and loaded nothing.
C20_Witness ==
    /\ host.cb = "update" /\ host.list = <<"rejected.ass", "three.ass">>
    /\ playlist = host.list
    /\ ret.op = "none"
    /\ loaded /\ track.track = "three.ass" /\ cur_time # I64Zero

====
